---- MODULE Spec2Model ----
(***************************************************************************)
(* LogiRoute route graph engine: logistics/services/graph_engine.py        *)
(* (RouteCalculator) over the LocationNode / RouteEdge records of          *)
(* logistics/models.py.                                                    *)
(*                                                                         *)
(* Number representation:                                                  *)
(*   time weights      in half minutes   (10 min = 20, 1.5 min = 3); a     *)
(*                     whole number of minutes times 1 or 1.5 and the sums *)
(*                     of such are exact as Python floats                  *)
(*   distance_km       in thousandths km (2.004 km = 2004): the decimal    *)
(*                     whose nearest float the record holds                *)
(*   cost_per_km       a whole number                                      *)
(*   distance and cost weights, their sums: Python floats (see below)      *)
(*   round(x, 0) yields whole minutes, round(x, 2) yields hundredths.      *)
(***************************************************************************)
EXTENDS Integers, Sequences, FiniteSets, TLC

\* Number of record changes (location / route edits) explored in one run.
MaxChanges == 2

\* requests and tasks begun on the package in one behaviour
MaxRequests == 3

(***************************************************************************)
(* The records: three locations and four directed routes.                  *)
(***************************************************************************)
LocationIds == {1, 2, 3}

\* ids a caller may pass: the known ones and one that names no record
QueryIds == LocationIds \cup {4}

NODE_TYPES == {"warehouse", "city", "customer"}

STATUS_CHOICES == {"active", "closed", "slow"}

\* LocationNode.node_type of every record (never edited in the model)
NodeTypeOf(id) == IF id = 1 THEN "warehouse" ELSE IF id = 2 THEN "city" ELSE "customer"

\* LocationNode.name values: a location is renamed by switching between two names
NameValues == {"old", "new"}

\* RouteEdge rows in queryset order (Meta.ordering = source, destination).
\* distance_km in thousandths of a km, travel_time_minutes in minutes,
\* cost_per_km a whole number.
EdgeTable ==
  << [id |-> 1, source_id |-> 1, destination_id |-> 2, distance_km |-> 2004,
      travel_time_minutes |-> 2, cost_per_km |-> 1],
     [id |-> 2, source_id |-> 1, destination_id |-> 3, distance_km |-> 3004,
      travel_time_minutes |-> 5, cost_per_km |-> 2],
     [id |-> 3, source_id |-> 2, destination_id |-> 3, distance_km |-> 2004,
      travel_time_minutes |-> 2, cost_per_km |-> 1],
     [id |-> 4, source_id |-> 3, destination_id |-> 1, distance_km |-> 1011,
      travel_time_minutes |-> 1, cost_per_km |-> 0] >>

EdgeIds == {EdgeTable[i].id : i \in 1..Len(EdgeTable)}

Metrics == {"time", "distance", "cost"}

\* optimize_by values a caller may pass: the three metrics and an unknown one
OptimizeByValues == Metrics \cup {"bogus"}

None == [none |-> TRUE]

EmptyDict == [x \in {} |-> 0]

VARIABLES
  is_active,   \* LocationNode.is_active of every location record
  name,        \* LocationNode.name of every location record
  status,      \* RouteEdge.status of every route record
  changes,     \* number of record edits made so far
  graph,       \* RouteCalculator.graph: None or the DiGraph
  node_data,   \* RouteCalculator.node_data
  ret,         \* the call made by the last step and what it gave back
  builder,     \* a thread inside build_graph(force_rebuild=True): position and locals
  reader,      \* a thread inside calculate_shortest_path: position and locals
  before,      \* graph and node_data as they were when the builder thread began
  package,     \* the row of one Package as the database holds it
  workers,     \* the transition requests and update_package_location tasks in flight
  started      \* number of requests and tasks begun so far

vars == <<is_active, name, status, changes, graph, node_data, ret, builder, reader, before,
          package, workers, started>>

packages == <<package, workers, started>>

threads == <<builder, reader, before>>

NoCall == [op |-> "none"]

(***************************************************************************)
(* Python floats (IEEE 754 binary64, round to nearest, ties to even).      *)
(* A float f is held as [x, n] with f = x / 1000 + n / (1000 * 2^62): x is *)
(* the decimal, in thousandths, that f stands for and n is how far f lies  *)
(* from it. 2^-62 is the unit in the last place of the float of 0.001, so  *)
(* every float from 0.001 up, and every sum of such floats and product     *)
(* with a whole number, is held exactly. Values are below 1024.            *)
(***************************************************************************)
FloatZero == [x |-> 0, n |-> 0]

\* 2^e modulo m
RECURSIVE Pow2Mod(_, _)
Pow2Mod(e, m) ==
  IF e = 0 THEN 1 % m
  ELSE IF e % 2 = 0 THEN LET h == Pow2Mod(e \div 2, m) IN (h * h) % m
  ELSE (2 * Pow2Mod(e - 1, m)) % m

\* the binary exponent k of y / 1000 (y > 0): 2^k <= y / 1000 < 2^(k + 1)
RECURSIVE BinaryExponent(_, _)
BinaryExponent(y, k) ==
  IF y >= 2000 THEN BinaryExponent(y \div 2, k + 1)
  ELSE IF y < 1000 THEN BinaryExponent(2 * y, k - 1)
  ELSE k

\* x / 1000 = 2^k
ExactPower(x, k) == IF k >= 0 THEN x = 1000 * 2^k ELSE x * 2^(0 - k) = 1000

\* the binary exponent of the value x / 1000 + n / (1000 * 2^62), x > 0: a
\* value just below a power of two has the exponent below
FloatExponent(x, n) ==
  LET k == BinaryExponent(x, 0)
  IN  IF n < 0 /\ ExactPower(x, k) THEN k - 1 ELSE k

\* the float nearest to the value x / 1000 + n / (1000 * 2^62), which is 0
\* or at least 0.001; ties go to the even significand. With k the binary
\* exponent of the value, the unit in the last place is 2^(k - 52), that is
\* ulp / (1000 * 2^62) for ulp = 1000 * 2^t, t = k + 10. r is the value in
\* units of 1 / (1000 * 2^62) modulo 2 * ulp, computed without the large
\* number: x * 2^62 mod 125 * 2^(t + 4) = 2^(t + 4) * (x * 2^(58 - t) mod 125).
Round53(x, n) ==
  IF x = 0 THEN FloatZero
  ELSE LET t == FloatExponent(x, n) + 10
           ulp == 1000 * 2^t
           r == (2^(t + 4) * (((x % 125) * Pow2Mod(58 - t, 125)) % 125) + n) % (2 * ulp)
           low == r % ulp
       IN  IF low = 0 THEN [x |-> x, n |-> n]
           ELSE IF 2 * low < ulp THEN [x |-> x, n |-> n - low]
           ELSE IF 2 * low > ulp THEN [x |-> x, n |-> n + (ulp - low)]
           ELSE IF r >= ulp THEN [x |-> x, n |-> n + (ulp - low)]
           ELSE [x |-> x, n |-> n - low]

\* the float a FloatField holds for a decimal of x thousandths
FloatOf(x) == Round53(x, 0)

\* a + b of two floats
FloatAdd(a, b) == Round53(a.x + b.x, a.n + b.n)

\* float(c) * a for a whole number c and a float a
FloatTimes(c, a) == Round53(c * a.x, c * a.n)

\* a < b of two floats
FloatLess(a, b) == a.x < b.x \/ (a.x = b.x /\ a.n < b.n)

\* 0, + and < on the values of an arc attribute: half minutes for weight,
\* floats for distance and cost
Zero(attr) == IF attr = "weight" THEN 0 ELSE FloatZero

Add(attr, a, b) == IF attr = "weight" THEN a + b ELSE FloatAdd(a, b)

Less(attr, a, b) == IF attr = "weight" THEN a < b ELSE FloatLess(a, b)

(***************************************************************************)
(* build_graph                                                             *)
(***************************************************************************)
\* LocationNode.objects.filter(is_active=True), in queryset order
ActiveNodes(act) == {id \in LocationIds : act[id]}

\* the metadata build_graph caches for one location (name, type)
NodeMeta(id, nm) == [name |-> nm[id], type |-> NodeTypeOf(id)]

EdgeWeightNominal(edge, st) == edge.travel_time_minutes * 2

\* the time weight of an edge (half minutes): 1.5 x for slow, 1 x for active
EdgeWeight(edge, st) ==
  IF st = "slow" THEN edge.travel_time_minutes * 3 ELSE edge.travel_time_minutes * 2

\* the arc G.add_edge creates for one route record
ArcOf(edge, st) ==
  [source |-> edge.source_id, destination |-> edge.destination_id,
   weight |-> EdgeWeight(edge, st),
   distance |-> FloatOf(edge.distance_km),
   cost |-> FloatTimes(edge.cost_per_km, FloatOf(edge.distance_km)),
   status |-> st, edge_id |-> edge.id]

SkipEdgeNever(st) == FALSE

\* the edge loop: closed routes are skipped
SkipEdge(st) == st = "closed"

\* LocationNode.Meta.ordering = ['name']: the place of a name in string order
NameRank(n) == IF n = "new" THEN 1 ELSE 2

\* a location comes before another in LocationNode's default ordering; rows
\* of equal name come in the order of their ids
NodeBefore(a, b, nm) ==
  \/ NameRank(nm[a]) < NameRank(nm[b])
  \/ NameRank(nm[a]) = NameRank(nm[b]) /\ a < b

\* RouteEdge.Meta.ordering = ['source', 'destination']: by the source's
\* name, then the destination's name; rows of equal names come in the order
\* of their ids
EdgeBefore(a, b, nm) ==
  \/ NameRank(nm[a.source_id]) < NameRank(nm[b.source_id])
  \/ /\ NameRank(nm[a.source_id]) = NameRank(nm[b.source_id])
     /\ \/ NameRank(nm[a.destination_id]) < NameRank(nm[b.destination_id])
        \/ /\ NameRank(nm[a.destination_id]) = NameRank(nm[b.destination_id])
           /\ a.id < b.id

RECURSIVE OrderedEdges(_, _)
OrderedEdges(edges, nm) ==
  IF edges = {} THEN << >>
  ELSE LET m == CHOOSE x \in edges : \A y \in edges \ {x} : EdgeBefore(x, y, nm)
       IN  <<m>> \o OrderedEdges(edges \ {m}, nm)

\* the rows of RouteEdge.objects.select_related('source', 'destination'), in
\* queryset order
Edges(nm) == OrderedEdges({EdgeTable[i] : i \in 1..Len(EdgeTable)}, nm)

\* the edge loop over the rows, from row i on: the arcs in the order of the
\* add_edge calls
RECURSIVE ArcsOfRows(_, _, _)
ArcsOfRows(rows, i, stat) ==
  IF i > Len(rows) THEN << >>
  ELSE LET edge == rows[i]
       IN  IF SkipEdge(stat[edge.id]) THEN ArcsOfRows(rows, i + 1, stat)
           ELSE << ArcOf(edge, stat[edge.id]) >> \o ArcsOfRows(rows, i + 1, stat)

\* the edge loop over the queryset, from row i on
BuildArcs(i, nm, stat) == ArcsOfRows(Edges(nm), i, stat)

\* vertices of a DiGraph: those of add_node and the endpoints add_edge adds
GraphNodes(added, arcs) ==
  added \cup {arcs[i].source : i \in 1..Len(arcs)}
        \cup {arcs[i].destination : i \in 1..Len(arcs)}

\* lines 29-41: G after the node loop over the active locations
NodeGraph(act, nm) ==
  [nodes |-> ActiveNodes(act),
   attrs |-> [id \in ActiveNodes(act) |-> NodeMeta(id, nm)],
   arcs  |-> << >>]

\* lines 53-74: G after the edge loop has added the arcs
WithArcs(G, arcs) == [G EXCEPT !.nodes = GraphNodes(@, arcs), !.arcs = arcs]

\* the DiGraph a build makes of the records when they do not change
\* between its read of the locations and its read of the routes
NewGraph(act, nm, stat) == WithArcs(NodeGraph(act, nm), BuildArcs(1, nm, stat))

\* node_data after the node loop: entries of active locations are written,
\* all other entries are left as they were
NewNodeData(nd, act, nm) ==
  [id \in (DOMAIN nd) \cup ActiveNodes(act) |->
     IF id \in ActiveNodes(act) THEN NodeMeta(id, nm) ELSE nd[id]]

ReturnsCachedAlways(g, force_rebuild) == g # None

ReturnsCachedNever(g, force_rebuild) == FALSE

\* the early return of build_graph
ReturnsCached(g, force_rebuild) == g # None /\ ~force_rebuild

\* build_graph as a function of the calculator and the records, which do
\* not change while it runs
build_graph(g, nd, force_rebuild, act, nm, stat) ==
  IF ReturnsCached(g, force_rebuild)
  THEN [graph |-> g, node_data |-> nd]
  ELSE [graph |-> NewGraph(act, nm, stat), node_data |-> NewNodeData(nd, act, nm)]

(***************************************************************************)
(* networkx: Graph membership, adjacency, dijkstra_path and                *)
(* single_source_shortest_path_length                                      *)
(***************************************************************************)
\* dict assignment d[k] = v
Put(d, k, v) == [x \in (DOMAIN d) \cup {k} |-> IF x = k THEN v ELSE d[x]]

\* G._adj[v].items(): the arcs leaving v, in insertion order
OutArcs(g, v) == SelectSeq(g.arcs, LAMBDA a : a.source = v)

\* self.graph[u][v]: the data of the arc u -> v (KeyError when there is none)
HasArc(g, u, v) == \E i \in 1..Len(g.arcs) : g.arcs[i].source = u /\ g.arcs[i].destination = v

EdgeData(g, u, v) ==
  g.arcs[CHOOSE i \in 1..Len(g.arcs) : g.arcs[i].source = u /\ g.arcs[i].destination = v]

\* heappop: the fringe entry <<distance, counter, node>> that is least by
\* distance and then by counter
HeapMin(fringe, weight) ==
  CHOOSE e \in fringe :
    \A f \in fringe : Less(weight, e[1], f[1]) \/ (e[1] = f[1] /\ e[2] <= f[2])

\* may an arc reaching u at distance vu_dist replace what is known of u
Improves(st, u, vu_dist, weight) ==
  u \notin DOMAIN st.seen \/ Less(weight, vu_dist, st.seen[u])

\* the inner loop of _dijkstra_multisource over the arcs leaving v
RECURSIVE RelaxArcs(_, _, _, _, _)
RelaxArcs(out, i, v, weight, st) ==
  IF i > Len(out) THEN st
  ELSE LET u == out[i].destination
           vu_dist == Add(weight, st.dist[v], out[i][weight])
       IN  IF u \in DOMAIN st.dist THEN RelaxArcs(out, i + 1, v, weight, st)
           ELSE IF Improves(st, u, vu_dist, weight)
           THEN RelaxArcs(out, i + 1, v, weight,
                  [st EXCEPT !.seen = Put(st.seen, u, vu_dist),
                             !.fringe = st.fringe \cup {<<vu_dist, st.c, u>>},
                             !.c = st.c + 1,
                             !.paths = Put(st.paths, u, Append(st.paths[v], u))])
           ELSE RelaxArcs(out, i + 1, v, weight, st)

\* the main loop of _dijkstra_multisource
RECURSIVE DijkstraLoop(_, _, _, _)
DijkstraLoop(g, weight, target, st) ==
  IF st.fringe = {} THEN st
  ELSE LET e == HeapMin(st.fringe, weight)
           d == e[1]
           v == e[3]
           popped == [st EXCEPT !.fringe = st.fringe \ {e}]
       IN  IF v \in DOMAIN st.dist THEN DijkstraLoop(g, weight, target, popped)
           ELSE LET settled == [popped EXCEPT !.dist = Put(popped.dist, v, d)]
                IN  IF v = target THEN settled
                    ELSE DijkstraLoop(g, weight, target,
                           RelaxArcs(OutArcs(g, v), 1, v, weight, settled))

_dijkstra_multisource(g, source, weight, target) ==
  DijkstraLoop(g, weight, target,
    [dist |-> EmptyDict, seen |-> Put(EmptyDict, source, Zero(weight)),
     fringe |-> {<<Zero(weight), 0, source>>}, c |-> 1,
     paths |-> Put(EmptyDict, source, <<source>>)])

\* what dijkstra_path does when the target was not reached
NoPathOutcome == [exception |-> "NetworkXNoPath", path |-> << >>]

\* nx.dijkstra_path(G, source, target, weight) for source and target in G
dijkstra_path(g, source, target, weight) ==
  IF target = source THEN [exception |-> "none", path |-> <<target>>]
  ELSE LET st == _dijkstra_multisource(g, source, weight, target)
       IN  IF target \in DOMAIN st.dist
           THEN [exception |-> "none", path |-> st.paths[target]]
           ELSE NoPathOutcome

\* the breadth-first levels of _single_shortest_path_length, as a sequence
\* of <<node, number of arcs>> in the order found
RECURSIVE BfsLevels(_, _, _, _)
BfsLevels(g, frontier, seen, level) ==
  IF frontier = << >> THEN << >>
  ELSE LET Step[i \in 0..Len(frontier)] ==
             IF i = 0 THEN [found |-> << >>, seen |-> seen]
             ELSE LET out == OutArcs(g, frontier[i])
                      Scan[j \in 0..Len(out)] ==
                        IF j = 0 THEN Step[i - 1]
                        ELSE LET w == out[j].destination
                             IN  IF w \in Scan[j - 1].seen THEN Scan[j - 1]
                                 ELSE [found |-> Append(Scan[j - 1].found, w),
                                       seen |-> Scan[j - 1].seen \cup {w}]
                  IN  Scan[Len(out)]
           last == Step[Len(frontier)]
       IN  [i \in 1..Len(frontier) |-> <<frontier[i], level>>]
             \o BfsLevels(g, last.found, last.seen, level + 1)

\* the keyword arguments single_source_shortest_path_length(G, source,
\* cutoff=None) accepts
AcceptedKeywords == {"cutoff"}

\* nx.single_source_shortest_path_length(G, source, **kwargs) for source in G
single_source_shortest_path_length(g, source, kwargs) ==
  IF ~(kwargs \subseteq AcceptedKeywords)
  THEN [exception |-> "TypeError", lengths |-> << >>]
  ELSE [exception |-> "none", lengths |-> BfsLevels(g, <<source>>, {source}, 0)]

(***************************************************************************)
(* Rounding of the values put into a result                                *)
(***************************************************************************)
\* round(x, 0) of a time in half minutes: whole minutes, halves to even
RoundMinutes(w) ==
  IF w % 2 = 0 THEN w \div 2
  ELSE IF (w \div 2) % 2 = 0 THEN w \div 2 ELSE (w \div 2) + 1

\* round(a, 2) of a float, in hundredths: the float is rounded as the
\* binary value it is, so a decimal ...5 goes down when the float lies below
\* it and up when above; a float that is the decimal ...5 itself (x.125,
\* x.375, ...) goes to even
Round2(a) ==
  IF a.x % 10 < 5 THEN a.x \div 10
  ELSE IF a.x % 10 > 5 THEN (a.x \div 10) + 1
  ELSE IF a.n < 0 THEN a.x \div 10
  ELSE IF a.n > 0 THEN (a.x \div 10) + 1
  ELSE IF (a.x \div 10) % 2 = 0 THEN a.x \div 10 ELSE (a.x \div 10) + 1

(***************************************************************************)
(* calculate_shortest_path                                                 *)
(***************************************************************************)
WeightAttrFallbackDistance(optimize_by) ==
  IF optimize_by = "time" THEN "weight"
  ELSE IF optimize_by = "cost" THEN "cost"
  ELSE "distance"

WeightAttrAlwaysTime(optimize_by) == "weight"

\* the weight attribute the search is steered by
WeightAttr(optimize_by) ==
  IF optimize_by = "time" THEN "weight"
  ELSE IF optimize_by = "distance" THEN "distance"
  ELSE IF optimize_by = "cost" THEN "cost"
  ELSE "weight"

RECURSIVE SumAttrOfRounded(_, _, _, _)
SumAttrOfRounded(g, path, n, attr) ==
  IF n = 0 THEN Zero(attr)
  ELSE LET x == EdgeData(g, path[n], path[n + 1])[attr]
       IN  Add(attr, SumAttrOfRounded(g, path, n - 1, attr),
               IF attr = "weight" THEN 2 * RoundMinutes(x) ELSE FloatOf(10 * Round2(x)))

\* total_time, total_distance, total_cost after n rounds of the segment
\* loop: the values of an arc attribute as the graph holds them, added to
\* the total one after the other from 0
RECURSIVE SumAttr(_, _, _, _)
SumAttr(g, path, n, attr) ==
  IF n = 0 THEN Zero(attr)
  ELSE Add(attr, SumAttr(g, path, n - 1, attr), EdgeData(g, path[n], path[n + 1])[attr])

\* one entry of route_segments, of the edge data and the two names read
SegmentOf(edge_data, from, to) ==
  [from |-> from,
   to |-> to,
   distance_km |-> Round2(edge_data.distance),
   time_minutes |-> RoundMinutes(edge_data.weight),
   cost |-> Round2(edge_data.cost),
   status |-> edge_data.status]

\* one entry of route_segments
Segment(g, nd, u, v) ==
  SegmentOf(EdgeData(g, u, v), [id |-> u, name |-> nd[u].name], [id |-> v, name |-> nd[v].name])

\* the success dictionary built of a path whose nodes all have metadata
RouteOf(g, nd, path, optimize_by) ==
  [nodes |-> [i \in 1..Len(path) |->
                [id |-> path[i], name |-> nd[path[i]].name, type |-> nd[path[i]].type]],
   segments |-> [i \in 1..(Len(path) - 1) |-> Segment(g, nd, path[i], path[i + 1])],
   summary |-> [total_distance_km |-> Round2(SumAttr(g, path, Len(path) - 1, "distance")),
                total_time_minutes |-> RoundMinutes(SumAttr(g, path, Len(path) - 1, "weight")),
                total_cost |-> Round2(SumAttr(g, path, Len(path) - 1, "cost")),
                stops |-> Len(path) - 2,
                optimized_by |-> optimize_by]]

NoPathResultEmptySuccess ==
  [status |-> "success",
   route |-> [nodes |-> << >>, segments |-> << >>,
              summary |-> [total_distance_km |-> 0, total_time_minutes |-> 0,
                           total_cost |-> 0, stops |-> 0 - 2, optimized_by |-> "time"]]]

\* the except NetworkXNoPath branch
NoPathResult == [status |-> "error", error |-> <<"No route available between these locations">>]

\* calculate_shortest_path on a built graph
calculate_shortest_path(g, nd, source_id, destination_id, optimize_by) ==
  IF source_id \notin g.nodes
  THEN [status |-> "error", error |-> <<"Source location not found or inactive", source_id>>]
  ELSE IF destination_id \notin g.nodes
  THEN [status |-> "error", error |-> <<"Destination location not found or inactive", destination_id>>]
  ELSE LET found == dijkstra_path(g, source_id, destination_id, WeightAttr(optimize_by))
           path == found.path
           nometa == {i \in 1..Len(path) : path[i] \notin DOMAIN nd}
       IN  IF found.exception = "NetworkXNoPath" THEN NoPathResult
           ELSE IF nometa # {}
           THEN \* KeyError of the first node_data lookup that fails
                [status |-> "error",
                 error |-> <<"Route calculation failed", path[CHOOSE i \in nometa : \A j \in nometa : i <= j]>>]
           ELSE [status |-> "success", route |-> RouteOf(g, nd, path, optimize_by)]

(***************************************************************************)
(* get_all_routes_from_location                                            *)
(***************************************************************************)
\* get_all_routes_from_location on a built graph: what it returns or raises
get_all_routes_from_location(g, nd, location_id) ==
  IF location_id \notin g.nodes
  THEN [outcome |-> "returned", value |-> [status |-> "error", error |-> <<"Location not found">>]]
  ELSE LET reachable == single_source_shortest_path_length(g, location_id, {"weight"})
           others == SelectSeq(reachable.lengths, LAMBDA e : e[1] # location_id)
       IN  IF reachable.exception # "none"
           THEN [outcome |-> "raised", value |-> reachable.exception]
           ELSE IF \E i \in 1..Len(others) : others[i][1] \notin DOMAIN nd
           THEN [outcome |-> "raised", value |-> "KeyError"]
           ELSE IF location_id \notin DOMAIN nd
           THEN [outcome |-> "raised", value |-> "KeyError"]
           ELSE [outcome |-> "returned",
                 value |-> [status |-> "success",
                            source |-> [id |-> location_id, name |-> nd[location_id].name],
                            reachable_destinations |->
                              [i \in 1..Len(others) |->
                                 [id |-> others[i][1],
                                  name |-> nd[others[i][1]].name,
                                  type |-> nd[others[i][1]].type,
                                  estimated_time_minutes |-> others[i][2]]],
                            count |-> Len(others)]]

(***************************************************************************)
(* The calls on one RouteCalculator, one at a time. A call that does not   *)
(* build is one step. A call that builds reads the records twice, with no  *)
(* transaction around the two reads: the locations (line 33) and the routes*)
(* (line 53); it is two steps, one for each read, and the records can be   *)
(* edited between them. ret holds the call that is under way and then what *)
(* it gave back until the caller has taken it (Return), after which the    *)
(* next call is made.                                                      *)
(* Record edits are those of the collaborators (admin, REST viewsets).     *)
(***************************************************************************)
\* a call is inside build_graph, between the node loop and the edge loop
Building == ret # NoCall /\ ret.outcome = "building"

SetActive(id, b) ==
  /\ ret = NoCall \/ Building
  /\ changes < MaxChanges
  /\ is_active[id] # b
  /\ is_active' = [is_active EXCEPT ![id] = b]
  /\ changes' = changes + 1
  /\ UNCHANGED <<name, status, graph, node_data, ret, threads, packages>>

Rename(id, nm) ==
  /\ ret = NoCall \/ Building
  /\ changes < MaxChanges
  /\ name[id] # nm
  /\ name' = [name EXCEPT ![id] = nm]
  /\ changes' = changes + 1
  /\ UNCHANGED <<is_active, status, graph, node_data, ret, threads, packages>>

SetStatus(e, st) ==
  /\ ret = NoCall \/ Building
  /\ changes < MaxChanges
  /\ status[e] # st
  /\ status' = [status EXCEPT ![e] = st]
  /\ changes' = changes + 1
  /\ UNCHANGED <<is_active, name, graph, node_data, ret, threads, packages>>

\* build_graph(force_rebuild): the early return of lines 26-27, or lines
\* 29-48: G = nx.DiGraph(), the active locations are read and the node loop
\* writes G and self.node_data
BuildGraph(force_rebuild) ==
  /\ ret = NoCall
  /\ IF ReturnsCached(graph, force_rebuild)
     THEN /\ ret' = [op |-> "build_graph", force_rebuild |-> force_rebuild,
                     built |-> FALSE, outcome |-> "returned", value |-> graph]
          /\ node_data' = node_data
     ELSE /\ ret' = [op |-> "build_graph", force_rebuild |-> force_rebuild,
                     built |-> TRUE, outcome |-> "building",
                     G |-> NodeGraph(is_active, name)]
          /\ node_data' = NewNodeData(node_data, is_active, name)
  /\ UNCHANGED <<is_active, name, status, changes, graph, threads, packages>>

\* calculate_shortest_path: the whole call on a calculator that holds a
\* graph; on one that holds none, lines 96-98 and the build up to the end
\* of its node loop
CalculateShortestPath(source_id, destination_id, optimize_by) ==
  /\ ret = NoCall
  /\ IF ReturnsCached(graph, FALSE)
     THEN /\ ret' = [op |-> "calculate_shortest_path", source_id |-> source_id,
                     destination_id |-> destination_id, optimize_by |-> optimize_by,
                     built |-> FALSE, outcome |-> "returned",
                     value |-> calculate_shortest_path(graph, node_data, source_id,
                                                       destination_id, optimize_by)]
          /\ node_data' = node_data
     ELSE /\ ret' = [op |-> "calculate_shortest_path", source_id |-> source_id,
                     destination_id |-> destination_id, optimize_by |-> optimize_by,
                     built |-> TRUE, outcome |-> "building",
                     G |-> NodeGraph(is_active, name)]
          /\ node_data' = NewNodeData(node_data, is_active, name)
  /\ UNCHANGED <<is_active, name, status, changes, graph, threads, packages>>

\* get_all_routes_from_location: the whole call on a calculator that holds
\* a graph; on one that holds none, lines 216-217 and the build up to the
\* end of its node loop
GetAllRoutesFromLocation(location_id) ==
  /\ ret = NoCall
  /\ IF ReturnsCached(graph, FALSE)
     THEN LET r == get_all_routes_from_location(graph, node_data, location_id)
          IN  /\ ret' = [op |-> "get_all_routes_from_location",
                         location_id |-> location_id, built |-> FALSE,
                         outcome |-> r.outcome, value |-> r.value]
              /\ node_data' = node_data
     ELSE /\ ret' = [op |-> "get_all_routes_from_location", location_id |-> location_id,
                     built |-> TRUE, outcome |-> "building",
                     G |-> NodeGraph(is_active, name)]
          /\ node_data' = NewNodeData(node_data, is_active, name)
  /\ UNCHANGED <<is_active, name, status, changes, graph, threads, packages>>

\* lines 51-77 of the build a call is inside: the routes are read, the edge
\* loop adds the arcs, self.graph = G; then the rest of the call, which reads
\* the calculator only
BuildEdges ==
  /\ Building
  /\ LET G == WithArcs(ret.G, BuildArcs(1, name, status))
     IN  /\ graph' = G
         /\ ret' =
              IF ret.op = "build_graph"
              THEN [op |-> ret.op, force_rebuild |-> ret.force_rebuild, built |-> TRUE,
                    outcome |-> "returned", value |-> G]
              ELSE IF ret.op = "calculate_shortest_path"
              THEN [op |-> ret.op, source_id |-> ret.source_id,
                    destination_id |-> ret.destination_id, optimize_by |-> ret.optimize_by,
                    built |-> TRUE, outcome |-> "returned",
                    value |-> calculate_shortest_path(G, node_data, ret.source_id,
                                                      ret.destination_id, ret.optimize_by)]
              ELSE LET r == get_all_routes_from_location(G, node_data, ret.location_id)
                   IN  [op |-> ret.op, location_id |-> ret.location_id, built |-> TRUE,
                        outcome |-> r.outcome, value |-> r.value]
  /\ UNCHANGED <<is_active, name, status, changes, node_data, threads, packages>>

\* the caller takes what the call gave back; the next call can be made
Return ==
  /\ ret # NoCall
  /\ ~Building
  /\ ret' = NoCall
  /\ UNCHANGED <<is_active, name, status, changes, graph, node_data, threads, packages>>

(***************************************************************************)
(* Package: the state field and its transitions (django-fsm)               *)
(***************************************************************************)
\* the choices of Package.state
PACKAGE_STATES == {"pending", "in_transit", "out_for_delivery", "delivered", "cancelled"}

\* the @transition declarations: method |-> source states and target state
Transitions ==
  [start_transit     |-> [source |-> {"pending"}, target |-> "in_transit"],
   move_to_location  |-> [source |-> {"in_transit"}, target |-> "in_transit"],
   start_delivery    |-> [source |-> {"in_transit"}, target |-> "out_for_delivery"],
   complete_delivery |-> [source |-> {"out_for_delivery"}, target |-> "delivered"],
   cancel_package    |-> [source |-> {"pending", "in_transit"}, target |-> "cancelled"]]

\* the body of a transition method, on the instance in memory
MethodBody(p, method, new_location) ==
  IF method = "move_to_location" THEN [p EXCEPT !.current_location = new_location]
  ELSE IF method = "complete_delivery" THEN [p EXCEPT !.delivered_at = "now"]
  ELSE p

\* the check the @transition decorator makes on the instance in memory
TransitionAllowed(p, method) == p.state \in Transitions[method].source

\* a call of a @transition method on an instance: TransitionNotAllowed and
\* the instance as it was, or the body is run and the state is set to the target
CallTransition(p, method, new_location) ==
  IF ~TransitionAllowed(p, method)
  THEN [exception |-> "TransitionNotAllowed", package |-> p]
  ELSE [exception |-> "none",
        package |-> [MethodBody(p, method, new_location)
                       EXCEPT !.state = Transitions[method].target]]

\* the action choices of PackageStateTransitionSerializer
ActionChoices ==
  {"start_transit", "move_to_location", "start_delivery", "complete_delivery", "cancel"}

\* what a request body can hold as action: the choices and another string
ActionValues == ActionChoices \cup {"refund"}

\* new_location_id of a request or task: none given (0), locations, no such location (4)
NewLocationIds == {0} \cup (QueryIds \ {1})

\* the Package method a validated action is dispatched to
MethodOf(action_name) == IF action_name = "cancel" THEN "cancel_package" ELSE action_name

\* the two workers that serve requests and run tasks
Workers == {"w1", "w2"}

\* a worker that holds no request and no task
IdleWorker ==
  [pc |-> "idle", kind |-> "none", action_name |-> "none", new_location_id |-> 0,
   data |-> None, package |-> None, response |-> "none"]

\* a package as created with a state (the default is pending), at its origin
CreatedPackage(state) == [state |-> state, current_location |-> 1, delivered_at |-> "None"]

\* what a PUT or PATCH body can hold as state: nothing, a choice, another string
StateValues == {"omitted", "lost"} \cup PACKAGE_STATES

\* the writable fields of PackageSerializer that the model holds, as a body gives them
UpdateData == [state : StateValues, current_location : NewLocationIds]

\* the serializer rejects a state that is no choice and a location that does not exist
DataInvalid(data) ==
  \/ data.state \notin PACKAGE_STATES \cup {"omitted"}
  \/ data.current_location \notin LocationIds \cup {0}

\* ModelSerializer.update: the given fields are set on the instance
ApplyData(p, data) ==
  [p EXCEPT !.state = IF data.state = "omitted" THEN @ ELSE data.state,
            !.current_location = IF data.current_location = 0 THEN @
                                 ELSE data.current_location]

\* no thread is inside build_graph
IdleBuilder == [pc |-> "idle", G |-> None, todo |-> << >>]

\* no thread is inside calculate_shortest_path
IdleReader ==
  [pc |-> "idle", source_id |-> 0, destination_id |-> 0, optimize_by |-> "time",
   path |-> << >>, i |-> 0, edge_data |-> None, from |-> None,
   total_time |-> 0, total_distance |-> FloatZero, total_cost |-> FloatZero,
   route_segments |-> << >>, route_nodes |-> << >>, result |-> None]

\* a new RouteCalculator (lines 12-14) over records in which every location
\* is active and every route is active, but for the direct route 1 -> 3,
\* which has any status
Init ==
  /\ is_active = [id \in LocationIds |-> TRUE]
  /\ name = [id \in LocationIds |-> "old"]
  /\ \E st \in STATUS_CHOICES : status = [e \in EdgeIds |-> IF e = 2 THEN st ELSE "active"]
  /\ changes = 0
  /\ graph = None
  /\ node_data = EmptyDict
  /\ ret = NoCall
  /\ builder = IdleBuilder
  /\ reader = IdleReader
  /\ before = None
  /\ package = CreatedPackage("pending")
  /\ workers = [w \in Workers |-> IdleWorker]
  /\ started = 0

Next ==
  \/ \E id \in LocationIds, b \in BOOLEAN : SetActive(id, b)
  \/ \E id \in LocationIds, nm \in NameValues : Rename(id, nm)
  \/ \E e \in EdgeIds, st \in STATUS_CHOICES : SetStatus(e, st)
  \/ \E f \in BOOLEAN : BuildGraph(f)
  \/ \E s \in QueryIds, d \in QueryIds, m \in OptimizeByValues : CalculateShortestPath(s, d, m)
  \/ \E l \in QueryIds : GetAllRoutesFromLocation(l)
  \/ BuildEdges
  \/ Return

Spec == Init /\ [][Next]_vars

(***************************************************************************)
(* Two threads on one RouteCalculator: one inside                          *)
(* build_graph(force_rebuild=True), one inside calculate_shortest_path.    *)
(* A step is one access to self.graph or self.node_data (a segment's       *)
(* lookups and the node list's lookups are taken as one step each).        *)
(***************************************************************************)
\* ids a reader thread asks about, and the metrics it asks for
ReaderIds == LocationIds

ReaderMetrics == {"time", "distance"}

\* the ids of a set of locations in queryset order (by name)
RECURSIVE SortedIds(_, _)
SortedIds(ids, nm) ==
  IF ids = {} THEN << >>
  ELSE LET m == CHOOSE x \in ids : \A y \in ids \ {x} : NodeBefore(x, y, nm)
       IN  <<m>> \o SortedIds(ids \ {m}, nm)

\* lines 29-33: G = nx.DiGraph(); the queryset of active locations is read
RebuildStart ==
  /\ builder.pc = "idle"
  /\ builder' = [pc |-> "nodes",
                 G |-> [nodes |-> {}, attrs |-> EmptyDict, arcs |-> << >>],
                 todo |-> [i \in 1..Cardinality(ActiveNodes(is_active)) |->
                             [id |-> SortedIds(ActiveNodes(is_active), name)[i],
                              meta |-> NodeMeta(SortedIds(ActiveNodes(is_active), name)[i], name)]]]
  /\ before' = [graph |-> graph, node_data |-> node_data]
  /\ UNCHANGED <<is_active, name, status, changes, graph, node_data, ret, reader, packages>>

\* lines 33-48: one round of the node loop: G.add_node and the write to
\* self.node_data
RebuildNode ==
  /\ builder.pc = "nodes"
  /\ builder.todo # << >>
  /\ LET node == Head(builder.todo)
     IN  /\ builder' = [builder EXCEPT
                          !.G.nodes = @ \cup {node.id},
                          !.G.attrs = Put(@, node.id, node.meta),
                          !.todo = Tail(@)]
         /\ node_data' = Put(node_data, node.id, node.meta)
  /\ UNCHANGED <<is_active, name, status, changes, graph, ret, reader, before, packages>>

\* lines 51-74: the route records are read and the arcs added to G
RebuildEdges ==
  /\ builder.pc = "nodes"
  /\ builder.todo = << >>
  /\ builder' = [builder EXCEPT !.pc = "install",
                                 !.G = WithArcs(@, BuildArcs(1, name, status))]
  /\ UNCHANGED <<is_active, name, status, changes, graph, node_data, ret, reader, before, packages>>

\* line 76: self.graph = G
RebuildInstall ==
  /\ builder.pc = "install"
  /\ graph' = builder.G
  /\ builder' = [builder EXCEPT !.pc = "done"]
  /\ UNCHANGED <<is_active, name, status, changes, node_data, ret, reader, before, packages>>

\* lines 96-97: the call begins on a calculator that holds a graph (from
\* its first build on, self.graph is never None again), so line 98 is not run
ReadStart(source_id, destination_id, optimize_by) ==
  /\ reader.pc \in {"idle", "done"}
  /\ graph # None
  /\ reader' = [IdleReader EXCEPT !.pc = "check_source", !.source_id = source_id,
                                  !.destination_id = destination_id,
                                  !.optimize_by = optimize_by]
  /\ UNCHANGED <<is_active, name, status, changes, graph, node_data, ret, builder, before,
                 packages>>

\* lines 101-105
ReadCheckSource ==
  /\ reader.pc = "check_source"
  /\ reader' =
       IF reader.source_id \notin graph.nodes
       THEN [reader EXCEPT !.pc = "done",
               !.result = [status |-> "error",
                           error |-> <<"Source location not found or inactive",
                                       reader.source_id>>]]
       ELSE [reader EXCEPT !.pc = "check_destination"]
  /\ UNCHANGED <<is_active, name, status, changes, graph, node_data, ret, builder, before, packages>>

\* lines 107-111
ReadCheckDestination ==
  /\ reader.pc = "check_destination"
  /\ reader' =
       IF reader.destination_id \notin graph.nodes
       THEN [reader EXCEPT !.pc = "done",
               !.result = [status |-> "error",
                           error |-> <<"Destination location not found or inactive",
                                       reader.destination_id>>]]
       ELSE [reader EXCEPT !.pc = "search"]
  /\ UNCHANGED <<is_active, name, status, changes, graph, node_data, ret, builder, before, packages>>

\* lines 113-127 and 195-204: the search on the graph self.graph names now.
\* A source or target that graph no longer holds makes networkx raise
\* NodeNotFound, which the catch-all turns into an error.
ReadSearch ==
  /\ reader.pc = "search"
  /\ reader' =
       IF reader.source_id \notin graph.nodes
       THEN [reader EXCEPT !.pc = "done",
               !.result = [status |-> "error",
                           error |-> <<"Route calculation failed", reader.source_id>>]]
       ELSE IF reader.destination_id \notin graph.nodes
       THEN [reader EXCEPT !.pc = "done", !.result = NoPathResult]
       ELSE LET found == dijkstra_path(graph, reader.source_id, reader.destination_id,
                                       WeightAttr(reader.optimize_by))
            IN  IF found.exception = "NetworkXNoPath"
                THEN [reader EXCEPT !.pc = "done", !.result = NoPathResult]
                ELSE [reader EXCEPT
                        !.pc = IF Len(found.path) > 1 THEN "segments" ELSE "nodes",
                        !.path = found.path, !.i = 1]
  /\ UNCHANGED <<is_active, name, status, changes, graph, node_data, ret, builder, before, packages>>

\* the KeyError, if any, of self.graph[u][v] (0: none)
EdgeKeyError(g, u, v) ==
  IF u \notin g.nodes THEN u
  ELSE IF ~HasArc(g, u, v) THEN v
  ELSE 0

\* the catch-all of lines 200-204, of a KeyError
FailedResult(key) == [status |-> "error", error |-> <<"Route calculation failed", key>>]

\* lines 135-142: a round of the segment loop begins: self.graph is read
\* for the edge data, which is added to the totals
ReadSegmentEdge ==
  /\ reader.pc = "segments"
  /\ LET u == reader.path[reader.i]
         v == reader.path[reader.i + 1]
         err == EdgeKeyError(graph, u, v)
     IN  reader' =
           IF err # 0
           THEN [reader EXCEPT !.pc = "done", !.result = FailedResult(err)]
           ELSE [reader EXCEPT
                   !.pc = "segment_from",
                   !.edge_data = EdgeData(graph, u, v),
                   !.total_time = @ + EdgeData(graph, u, v).weight,
                   !.total_distance = FloatAdd(@, EdgeData(graph, u, v).distance),
                   !.total_cost = FloatAdd(@, EdgeData(graph, u, v).cost)]
  /\ UNCHANGED <<is_active, name, status, changes, graph, node_data, ret, builder, before, packages>>

\* lines 145-152: self.node_data[current_node] is read for 'from' (the name;
\* the coordinates read after it are no part of the model)
ReadSegmentFrom ==
  /\ reader.pc = "segment_from"
  /\ LET u == reader.path[reader.i]
     IN  reader' =
           IF u \notin DOMAIN node_data
           THEN [reader EXCEPT !.pc = "done", !.result = FailedResult(u)]
           ELSE [reader EXCEPT !.pc = "segment_to",
                               !.from = [id |-> u, name |-> node_data[u].name]]
  /\ UNCHANGED <<is_active, name, status, changes, graph, node_data, ret, builder, before, packages>>

\* lines 153-165: self.node_data[next_node] is read for 'to' and the segment
\* is appended; the loop goes on or ends
ReadSegmentTo ==
  /\ reader.pc = "segment_to"
  /\ LET v == reader.path[reader.i + 1]
     IN  reader' =
           IF v \notin DOMAIN node_data
           THEN [reader EXCEPT !.pc = "done", !.result = FailedResult(v)]
           ELSE [reader EXCEPT
                   !.pc = IF reader.i + 1 < Len(reader.path) THEN "segments" ELSE "nodes",
                   !.i = IF reader.i + 1 < Len(reader.path) THEN @ + 1 ELSE 1,
                   !.route_segments =
                      Append(@, SegmentOf(reader.edge_data, reader.from,
                                          [id |-> v, name |-> node_data[v].name]))]
  /\ UNCHANGED <<is_active, name, status, changes, graph, node_data, ret, builder, before, packages>>

\* lines 167-193: one round of the node loop: self.node_data[node_id] is
\* read (name and type; the type of a location never changes); after the
\* last round the result is built
ReadNode ==
  /\ reader.pc = "nodes"
  /\ LET v == reader.path[reader.i]
         nodes == Append(reader.route_nodes,
                         [id |-> v, name |-> node_data[v].name, type |-> node_data[v].type])
     IN  reader' =
           IF v \notin DOMAIN node_data
           THEN [reader EXCEPT !.pc = "done", !.result = FailedResult(v)]
           ELSE IF reader.i < Len(reader.path)
           THEN [reader EXCEPT !.i = @ + 1, !.route_nodes = nodes]
           ELSE [reader EXCEPT
                   !.pc = "done",
                   !.route_nodes = nodes,
                   !.result =
                     [status |-> "success",
                      route |-> [nodes |-> nodes,
                                 segments |-> reader.route_segments,
                                 summary |-> [total_distance_km |-> Round2(reader.total_distance),
                                              total_time_minutes |-> RoundMinutes(reader.total_time),
                                              total_cost |-> Round2(reader.total_cost),
                                              stops |-> Len(reader.path) - 2,
                                              optimized_by |-> reader.optimize_by]]]]
  /\ UNCHANGED <<is_active, name, status, changes, graph, node_data, ret, builder, before, packages>>

\* the calculator has made its first build of the records
InitThreads ==
  /\ is_active = [id \in LocationIds |-> TRUE]
  /\ name = [id \in LocationIds |-> "old"]
  /\ status = [e \in EdgeIds |-> "active"]
  /\ changes = 0
  /\ graph = NewGraph(is_active, name, status)
  /\ node_data = NewNodeData(EmptyDict, is_active, name)
  /\ ret = NoCall
  /\ builder = IdleBuilder
  /\ reader = IdleReader
  /\ before = None
  /\ package = CreatedPackage("pending")
  /\ workers = [w \in Workers |-> IdleWorker]
  /\ started = 0

NextThreads ==
  \/ \E id \in LocationIds, b \in BOOLEAN : SetActive(id, b)
  \/ \E id \in LocationIds, nm \in NameValues : Rename(id, nm)
  \/ \E e \in EdgeIds, st \in STATUS_CHOICES : SetStatus(e, st)
  \/ RebuildStart
  \/ RebuildNode
  \/ RebuildEdges
  \/ RebuildInstall
  \/ \E s \in ReaderIds, d \in ReaderIds, m \in ReaderMetrics : ReadStart(s, d, m)
  \/ ReadCheckSource
  \/ ReadCheckDestination
  \/ ReadSearch
  \/ ReadSegmentEdge
  \/ ReadSegmentFrom
  \/ ReadSegmentTo
  \/ ReadNode

SpecThreads == InitThreads /\ [][NextThreads]_vars

(***************************************************************************)
(* The handlers of one package: PackageViewSet.transition, the             *)
(* update_package_location task, the update, partial_update and destroy    *)
(* that PackageViewSet inherits of ModelViewSet, and the change form of    *)
(* PackageAdmin.                                                           *)
(* A step is one access to the package's row (the SELECT of the load, the  *)
(* UPDATE of save(), the DELETE) with the work on the instance in memory   *)
(* that precedes it; between its load and its save a worker holds the row  *)
(* as it read it. package = None: the row is deleted. save() of an         *)
(* instance whose row is gone inserts it again.                            *)
(***************************************************************************)
routes == <<is_active, name, status, graph, node_data, ret, threads>>

\* a worker that has loaded the row for a request or task
Loaded(kind, action_name, new_location_id, data) ==
  [pc |-> "loaded", kind |-> kind, action_name |-> action_name,
   new_location_id |-> new_location_id, data |-> data, package |-> package,
   response |-> "none"]

\* a worker that has answered: the locals of the handler are gone
Answered(kind, response) == [IdleWorker EXCEPT !.pc = "done", !.kind = kind, !.response = response]

\* a worker takes a request or task
Begins(w) ==
  /\ workers[w].pc \in {"idle", "done"}
  /\ started < MaxRequests
  /\ started' = started + 1

\* PackageViewSet.transition, lines 103-113: get_object() and the
\* validation of the request body
TransitionLoad(w, action_name, new_location_id) ==
  /\ Begins(w)
  /\ workers' = [workers EXCEPT ![w] =
       IF package = None
       THEN Answered("transition", "HTTP_404_NOT_FOUND")
       ELSE IF action_name \notin ActionChoices
       THEN Answered("transition", "HTTP_400_BAD_REQUEST")
       ELSE Loaded("transition", action_name, new_location_id, None)]
  /\ UNCHANGED <<package, changes, routes>>

\* the location lookup of move_to_location fails: no id given or no such location
LocationMissing(new_location_id) == new_location_id \notin LocationIds

\* PackageViewSet.transition, lines 115-145: the transition on the instance
\* in memory, then package.save() of the whole row; any exception is
\* answered with 400 and nothing is saved
TransitionSave(w) ==
  LET r == workers[w]
      method == MethodOf(r.action_name)
      called == CallTransition(r.package, method, r.new_location_id)
      failed == \/ (method = "move_to_location" /\ LocationMissing(r.new_location_id))
                \/ called.exception # "none"
  IN  /\ r.pc = "loaded"
      /\ r.kind = "transition"
      /\ package' = IF failed THEN package ELSE called.package
      /\ workers' = [workers EXCEPT ![w] =
           Answered(r.kind, IF failed THEN "HTTP_400_BAD_REQUEST" ELSE "HTTP_200_OK")]
      /\ UNCHANGED <<started, changes, routes>>

\* update_package_location, lines 68-69: the package and the location are loaded
TaskLoad(w, new_location_id) ==
  /\ Begins(w)
  /\ workers' = [workers EXCEPT ![w] =
       IF package = None \/ LocationMissing(new_location_id)
       THEN Answered("update_package_location", "error")
       ELSE Loaded("update_package_location", "none", new_location_id, None)]
  /\ UNCHANGED <<package, changes, routes>>

\* update_package_location, lines 72-88: after the sleep, the state of the
\* instance in memory is tested, the package is moved and saved
TaskSave(w) ==
  LET r == workers[w]
      called == CallTransition(r.package, "move_to_location", r.new_location_id)
      moves == r.package.state = "in_transit" /\ called.exception = "none"
  IN  /\ r.pc = "loaded"
      /\ r.kind = "update_package_location"
      /\ package' = IF moves THEN called.package ELSE package
      /\ workers' = [workers EXCEPT ![w] =
           Answered(r.kind, IF moves THEN "success" ELSE "error")]
      /\ UNCHANGED <<started, changes, routes>>

\* PackageViewSet.update / partial_update (ModelViewSet): get_object() and
\* the validation of the body by PackageSerializer
UpdateLoad(w, data) ==
  /\ Begins(w)
  /\ changes < MaxChanges
  /\ changes' = changes + 1
  /\ workers' = [workers EXCEPT ![w] =
       IF package = None
       THEN Answered("update", "HTTP_404_NOT_FOUND")
       ELSE IF DataInvalid(data)
       THEN Answered("update", "HTTP_400_BAD_REQUEST")
       ELSE Loaded("update", "none", 0, data)]
  /\ UNCHANGED <<package, routes>>

\* PackageViewSet.update / partial_update: serializer.save() sets the given
\* fields, state among them, on the instance and saves the whole row
UpdateSave(w) ==
  LET r == workers[w]
  IN  /\ r.pc = "loaded"
      /\ r.kind = "update"
      /\ package' = ApplyData(r.package, r.data)
      /\ workers' = [workers EXCEPT ![w] =
           Answered(r.kind, "HTTP_200_OK")]
      /\ UNCHANGED <<started, changes, routes>>

\* PackageViewSet.destroy (ModelViewSet): get_object()
DestroyLoad(w) ==
  /\ Begins(w)
  /\ changes < MaxChanges
  /\ changes' = changes + 1
  /\ workers' = [workers EXCEPT ![w] =
       IF package = None
       THEN Answered("destroy", "HTTP_404_NOT_FOUND")
       ELSE Loaded("destroy", "none", 0, None)]
  /\ UNCHANGED <<package, routes>>

\* PackageViewSet.destroy: instance.delete() of the row that was loaded,
\* whether or not the row is still there
DestroyDelete(w) ==
  LET r == workers[w]
  IN  /\ r.pc = "loaded"
      /\ r.kind = "destroy"
      /\ package' = None
      /\ workers' = [workers EXCEPT ![w] = Answered(r.kind, "HTTP_204_NO_CONTENT")]
      /\ UNCHANGED <<started, changes, routes>>

\* PackageAdmin, change form of an existing package (GET or POST): the
\* object is loaded and get_readonly_fields adds the tuple ('state',) to the
\* list readonly_fields, which raises TypeError before any form is made:
\* nothing is saved
AdminChange(w) ==
  /\ Begins(w)
  /\ workers' = [workers EXCEPT ![w] =
       IF package = None
       THEN Answered("admin_change", "does_not_exist")
       ELSE Answered("admin_change", "TypeError")]
  /\ UNCHANGED <<package, changes, routes>>

\* a package just created (PackageViewSet.create and the add form of the
\* admin take any state of the choices; the default is pending), no request
\* and no task begun; the route records and the calculator are as in Init
\* and stay so
InitPackage ==
  /\ is_active = [id \in LocationIds |-> TRUE]
  /\ name = [id \in LocationIds |-> "old"]
  /\ status = [e \in EdgeIds |-> "active"]
  /\ changes = 0
  /\ graph = None
  /\ node_data = EmptyDict
  /\ ret = NoCall
  /\ builder = IdleBuilder
  /\ reader = IdleReader
  /\ before = None
  /\ \E state \in PACKAGE_STATES : package = CreatedPackage(state)
  /\ workers = [w \in Workers |-> IdleWorker]
  /\ started = 0

NextPackage ==
  \/ \E w \in Workers, a \in ActionValues, l \in NewLocationIds : TransitionLoad(w, a, l)
  \/ \E w \in Workers : TransitionSave(w)
  \/ \E w \in Workers, l \in NewLocationIds : TaskLoad(w, l)
  \/ \E w \in Workers : TaskSave(w)
  \/ \E w \in Workers, data \in UpdateData : UpdateLoad(w, data)
  \/ \E w \in Workers : UpdateSave(w)
  \/ \E w \in Workers : DestroyLoad(w)
  \/ \E w \in Workers : DestroyDelete(w)
  \/ \E w \in Workers : AdminChange(w)

SpecPackage == InitPackage /\ [][NextPackage]_vars

(***************************************************************************)
(* Graph notions the properties are stated in                              *)
(***************************************************************************)
IsCall ==
  /\ ret.op \in {"build_graph", "calculate_shortest_path", "get_all_routes_from_location"}
  /\ ret.outcome # "building"

IsRoute == ret.op = "calculate_shortest_path" /\ ret.outcome = "returned"

IsRouteSuccess == IsRoute /\ ret.value.status = "success"

IsReach == ret.op = "get_all_routes_from_location" /\ ret.outcome # "building"

\* the node ids a successful route lists
RoutePath == [i \in 1..Len(ret.value.route.nodes) |-> ret.value.route.nodes[i].id]

\* the arcs of a graph as ordered pairs
ArcPairs(g) == {<<g.arcs[i].source, g.arcs[i].destination>> : i \in 1..Len(g.arcs)}

\* a directed path of g: a non-empty node sequence along arcs
IsDirectedPath(g, p) ==
  /\ Len(p) >= 1
  /\ \A i \in 1..Len(p) : p[i] \in g.nodes
  /\ \A i \in 1..(Len(p) - 1) : <<p[i], p[i + 1]>> \in ArcPairs(g)

\* the directed paths from s to d that repeat no node (weights are not
\* negative, so a lightest path is among them)
SimplePaths(g, s, d) ==
  {p \in UNION {[1..n -> g.nodes] : n \in 1..Cardinality(g.nodes)} :
     /\ p[1] = s /\ p[Len(p)] = d
     /\ \A i \in 1..Len(p), j \in 1..Len(p) : i # j => p[i] # p[j]
     /\ IsDirectedPath(g, p)}

\* the weight of the arc u -> v under an attribute: half minutes, or the
\* thousandths that the float of a distance or cost stands for
ArcWeight(g, u, v, attr) ==
  LET a == CHOOSE x \in {g.arcs[i] : i \in 1..Len(g.arcs)} : x.source = u /\ x.destination = v
  IN  IF attr = "weight" THEN a.weight ELSE a[attr].x

RECURSIVE PathWeight(_, _, _)
PathWeight(g, p, attr) ==
  IF Len(p) <= 1 THEN 0
  ELSE ArcWeight(g, p[1], p[2], attr) + PathWeight(g, Tail(p), attr)

\* the vertices that a directed path leads to from s (s among them)
ReachableFrom(g, s) == {d \in g.nodes : SimplePaths(g, s, d) # {}}

\* the least weight of a directed path from s to a reachable d
MinWeight(g, s, d, attr) ==
  LET ws == {PathWeight(g, p, attr) : p \in SimplePaths(g, s, d)}
  IN  CHOOSE w \in ws : \A x \in ws : w <= x

MetricAttr(m) == IF m = "time" THEN "weight" ELSE m

\* the arc of the graph that was made of route record e, if any
ArcsOfEdge(g, e) == {i \in 1..Len(g.arcs) : g.arcs[i].edge_id = e}

(***************************************************************************)
(* C1: a successful calculate_shortest_path under time, distance or cost   *)
(* lists a node sequence from source to destination along arcs of the      *)
(* graph whose weight under that metric is least among all directed paths. *)
(***************************************************************************)
C1_ShortestPathMinimal ==
  (IsRouteSuccess /\ ret.optimize_by \in Metrics) =>
    LET p == RoutePath
        attr == MetricAttr(ret.optimize_by)
        weight == PathWeight(graph, p, attr)
    IN  /\ IsDirectedPath(graph, p)
        /\ p[1] = ret.source_id
        /\ p[Len(p)] = ret.destination_id
        /\ \A q \in SimplePaths(graph, ret.source_id, ret.destination_id) :
             weight <= PathWeight(graph, q, attr)

\* a distance query answered by the direct arc although the way round is quicker
C1_Witness ==
  /\ IsRouteSuccess
  /\ ret.optimize_by = "distance"
  /\ RoutePath = <<1, 3>>
  /\ <<1, 2, 3>> \in SimplePaths(graph, 1, 3)
  /\ PathWeight(graph, <<1, 2, 3>>, "weight") < PathWeight(graph, <<1, 3>>, "weight")

(***************************************************************************)
(* C2: a build makes no arc of a route that is closed when the build reads *)
(* it, no arc of any graph carries a closed route, and a successful route  *)
(* runs only over arcs of the graph, none of them closed.                  *)
(***************************************************************************)
C2_NoClosedArc ==
  /\ (IsCall /\ ret.built) =>
       \A e \in EdgeIds : status[e] = "closed" => ArcsOfEdge(graph, e) = {}
  /\ graph # None => \A i \in 1..Len(graph.arcs) : graph.arcs[i].status # "closed"
  /\ IsRouteSuccess =>
       /\ IsDirectedPath(graph, RoutePath)
       /\ \A i \in 1..Len(ret.value.route.segments) :
            ret.value.route.segments[i].status # "closed"

\* the direct route 1 -> 3 is closed and is the shortest by distance; the
\* distance query goes round over 2
C2_Witness ==
  /\ IsRouteSuccess
  /\ ret.built
  /\ status[2] = "closed"
  /\ ret.optimize_by = "distance"
  /\ RoutePath = <<1, 2, 3>>

(***************************************************************************)
(* C3: every vertex of a graph just built is a location that is active.    *)
(***************************************************************************)
C3_OnlyActiveVertices ==
  (IsCall /\ ret.built) => \A v \in graph.nodes : is_active[v]

(***************************************************************************)
(* C4: on a graph that matches the records, calculate_shortest_path gives  *)
(* the NotFound error of the source when the source is not an active       *)
(* location, and else that of the destination when the destination is not. *)
(***************************************************************************)
C4_NotFoundWhenInactive ==
  (IsRoute /\ graph = NewGraph(is_active, name, status)) =>
    /\ ret.source_id \notin ActiveNodes(is_active) =>
         ret.value = [status |-> "error",
                      error |-> <<"Source location not found or inactive", ret.source_id>>]
    /\ (ret.source_id \in ActiveNodes(is_active)
          /\ ret.destination_id \notin ActiveNodes(is_active)) =>
         ret.value = [status |-> "error",
                      error |-> <<"Destination location not found or inactive",
                                  ret.destination_id>>]

(***************************************************************************)
(* C5: with source and destination both vertices and no directed path from *)
(* source to destination, calculate_shortest_path gives the NoPath error,  *)
(* never a success.                                                        *)
(***************************************************************************)
C5_NoPathIsError ==
  (/\ IsRoute
   /\ ret.source_id \in graph.nodes
   /\ ret.destination_id \in graph.nodes
   /\ SimplePaths(graph, ret.source_id, ret.destination_id) = {}) =>
    /\ ret.value.status = "error"
    /\ ret.value.error = <<"No route available between these locations">>

C5_Witness ==
  /\ IsRoute
  /\ ret.source_id \in graph.nodes
  /\ ret.destination_id \in graph.nodes
  /\ SimplePaths(graph, ret.source_id, ret.destination_id) = {}
  /\ ret.value.status = "error"

(***************************************************************************)
(* C6: calculate_shortest_path and get_all_routes_from_location always     *)
(* return a tagged result (success, NotFound or NoPath): they raise no     *)
(* exception and give no catch-all failure.                                *)
(***************************************************************************)
TaggedErrors ==
  {"Source location not found or inactive", "Destination location not found or inactive",
   "No route available between these locations", "Location not found"}

C6_AlwaysTaggedResult ==
  (IsCall /\ ret.op \in {"calculate_shortest_path", "get_all_routes_from_location"}) =>
    /\ ret.outcome = "returned"
    /\ ret.value.status = "error" => ret.value.error[1] \in TaggedErrors

(***************************************************************************)
(* C7: get_all_routes_from_location of a vertex S lists exactly the        *)
(* vertices other than S that a directed path leads to from S.             *)
(***************************************************************************)
C7_ReachableExactly ==
  (IsReach /\ ret.location_id \in graph.nodes) =>
    /\ ret.outcome = "returned"
    /\ ret.value.status = "success"
    /\ {ret.value.reachable_destinations[i].id :
          i \in 1..Len(ret.value.reachable_destinations)}
         = ReachableFrom(graph, ret.location_id) \ {ret.location_id}

(***************************************************************************)
(* C8: the estimated time get_all_routes_from_location reports for a       *)
(* destination D is the least time weight of a directed path from S to D,  *)
(* rounded to whole minutes.                                               *)
(***************************************************************************)
C8_EstimatedTimeIsMinimal ==
  (IsReach /\ ret.location_id \in graph.nodes) =>
    /\ ret.outcome = "returned"
    /\ ret.value.status = "success"
    /\ \A i \in 1..Len(ret.value.reachable_destinations) :
         LET dest == ret.value.reachable_destinations[i]
         IN  /\ dest.id \in ReachableFrom(graph, ret.location_id)
             /\ dest.estimated_time_minutes
                  = RoundMinutes(MinWeight(graph, ret.location_id, dest.id, "weight"))

(***************************************************************************)
(* C9: a calculate_shortest_path call that runs while build_graph(True)    *)
(* runs gives the result it would give on the calculator as it was before  *)
(* the rebuild or the result it would give on the calculator after it.     *)
(***************************************************************************)
C9_OldOrNewSnapshot ==
  (reader.pc = "done" /\ builder.pc = "done") =>
    \/ reader.result = calculate_shortest_path(before.graph, before.node_data,
                         reader.source_id, reader.destination_id, reader.optimize_by)
    \/ reader.result = calculate_shortest_path(graph, node_data,
                         reader.source_id, reader.destination_id, reader.optimize_by)

(***************************************************************************)
(* C10: a calculator that holds a graph keeps it, and its node_data, in    *)
(* every step but those of build_graph(force_rebuild=True): an unforced    *)
(* build_graph returns that graph and a query answers from it, whatever    *)
(* the records say by then; a query on a calculator without a graph builds *)
(* one first and answers from it, and the graph it builds is that of the   *)
(* records when the locations are still as the build read them.            *)
(***************************************************************************)
C10_Step ==
  /\ (graph # None /\ ~(ret'.op = "build_graph" /\ ret'.force_rebuild)) =>
       /\ graph' = graph
       /\ node_data' = node_data
  /\ (graph # None /\ ret'.op = "build_graph" /\ ~ret'.force_rebuild) =>
       /\ ret'.outcome = "returned"
       /\ ret'.value = graph
  /\ (graph # None /\ ret'.op \in {"calculate_shortest_path", "get_all_routes_from_location"}) =>
       ret'.outcome # "building"
  /\ (/\ ret'.op \in {"calculate_shortest_path", "get_all_routes_from_location"}
      /\ ret'.outcome # "building") =>
       /\ graph' # None
       /\ ret'.built = (graph = None)
       /\ ret'.op = "calculate_shortest_path" =>
            ret'.value = calculate_shortest_path(graph', node_data', ret'.source_id,
                                                 ret'.destination_id, ret'.optimize_by)
       /\ (Building /\ ret.G = NodeGraph(is_active, name)) =>
            graph' = NewGraph(is_active, name, status)

C10_IdempotentUnlessForced == [][C10_Step]_vars

\* a graph that no longer matches the records is returned by an unforced build
C10_Witness ==
  /\ ret.op = "build_graph"
  /\ ~ret.force_rebuild
  /\ ~ret.built
  /\ ret.value = graph
  /\ graph # NewGraph(is_active, name, status)

(***************************************************************************)
(* C11: on a calculator that holds a graph, calculate_shortest_path and    *)
(* get_all_routes_from_location leave the graph (vertices, arcs, weights)  *)
(* and node_data as they were, for every id and metric, whether the call   *)
(* succeeds, returns an error or raises.                                   *)
(***************************************************************************)
C11_Step ==
  (graph # None /\ ret'.op \in {"calculate_shortest_path", "get_all_routes_from_location"}) =>
    /\ graph' = graph
    /\ node_data' = node_data

C11_QueriesLeaveSnapshot == [][C11_Step]_vars

\* an error answered from a graph that a build of the records would replace
C11_Witness ==
  /\ IsRoute
  /\ ~ret.built
  /\ ret.value.status = "error"
  /\ graph # NewGraph(is_active, name, status)

(***************************************************************************)
(* C12: a forced rebuild during which the location records stay as its     *)
(* node loop read them gives the graph, by vertex set, arc set and time,   *)
(* distance and cost weights, that a calculator without any history builds *)
(* of the records as they are, and so the graph that a forced rebuild      *)
(* right after it gives.                                                   *)
(***************************************************************************)
\* the arcs of a graph with their three weights
WeightedArcs(g) ==
  {[source |-> g.arcs[i].source, destination |-> g.arcs[i].destination,
    weight |-> g.arcs[i].weight, distance |-> g.arcs[i].distance, cost |-> g.arcs[i].cost] :
     i \in 1..Len(g.arcs)}

SameGraph(g1, g2) == g1.nodes = g2.nodes /\ WeightedArcs(g1) = WeightedArcs(g2)

C12_Step ==
  (/\ ret'.op = "build_graph"
   /\ ret'.force_rebuild
   /\ ret'.outcome = "returned"
   /\ ret' # ret
   /\ (ret = NoCall \/ ret.G = NodeGraph(is_active, name))) =>
    SameGraph(graph', build_graph(None, EmptyDict, TRUE, is_active, name, status).graph)

C12_RebuildDeterministic == [][C12_Step]_vars

\* a forced rebuild on a calculator whose earlier build read other records
C12_Witness ==
  /\ ret.op = "build_graph"
  /\ ret.force_rebuild
  /\ ret.outcome = "returned"
  /\ changes > 0
  /\ DOMAIN node_data # ActiveNodes(is_active)

(***************************************************************************)
(* C13: the totals of a successful route are the sums of the arcs' time,   *)
(* distance and cost as the graph holds them, rounded once: the time total *)
(* is the sum rounded to whole minutes, the distance and cost totals lie   *)
(* within half a hundredth of the sums; they are not the sums of the       *)
(* rounded values the segments show.                                       *)
(***************************************************************************)
RECURSIVE SumField(_, _)
SumField(segs, field) ==
  IF segs = << >> THEN 0 ELSE Head(segs)[field] + SumField(Tail(segs), field)

\* a total in hundredths is a rounding of a sum in thousandths
RoundingOf(total, sum) == 10 * total - 5 <= sum /\ sum <= 10 * total + 5

C13_TotalsRoundedOnce ==
  IsRouteSuccess =>
    LET summary == ret.value.route.summary
    IN  /\ summary.total_time_minutes = RoundMinutes(PathWeight(graph, RoutePath, "weight"))
        /\ RoundingOf(summary.total_distance_km, PathWeight(graph, RoutePath, "distance"))
        /\ RoundingOf(summary.total_cost, PathWeight(graph, RoutePath, "cost"))

\* 2.004 km + 2.004 km: the total is 4.01, the segments show 2.0 and 2.0
C13_Witness ==
  /\ IsRouteSuccess
  /\ Len(RoutePath) >= 3
  /\ ret.value.route.summary.total_distance_km
       # SumField(ret.value.route.segments, "distance_km")

(***************************************************************************)
(* C14: every arc of a graph just built has the time weight 1.5 x the      *)
(* nominal travel_time_minutes of its route when its status is slow and    *)
(* the nominal travel_time_minutes when it is active, the distance weight  *)
(* distance_km as a float and the cost weight cost_per_km x distance_km to *)
(* within the rounding of floats.                                          *)
(***************************************************************************)
\* the route record an arc was made of
EdgeOfArc(arc) == CHOOSE edge \in {EdgeTable[i] : i \in 1..Len(EdgeTable)} : edge.id = arc.edge_id

\* a float lies within two units in the last place of the decimal it
\* stands for
NearDecimal(a) ==
  \/ a = FloatZero
  \/ /\ a.x > 0
     /\ 0 - 2000 * 2^(FloatExponent(a.x, a.n) + 10) <= a.n
     /\ a.n <= 2000 * 2^(FloatExponent(a.x, a.n) + 10)

\* time weights are held in half minutes
C14_ArcWeights ==
  (IsCall /\ ret.built) =>
    \A i \in 1..Len(graph.arcs) :
      LET arc == graph.arcs[i]
          edge == EdgeOfArc(arc)
      IN  /\ arc.status = "slow" => 2 * arc.weight = 3 * (2 * edge.travel_time_minutes)
          /\ arc.status = "active" => arc.weight = 2 * edge.travel_time_minutes
          /\ arc.distance = FloatOf(edge.distance_km)
          /\ arc.cost.x = edge.cost_per_km * edge.distance_km
          /\ NearDecimal(arc.cost)

\* a graph with a slow arc of an odd number of minutes: 7.5 minutes
C14_Witness ==
  /\ IsCall
  /\ ret.built
  /\ \E i \in 1..Len(graph.arcs) :
       /\ graph.arcs[i].status = "slow"
       /\ graph.arcs[i].weight % 2 = 1

(***************************************************************************)
(* C15: for every vertex X of the graph and every metric,                  *)
(* calculate_shortest_path(X, X, metric) succeeds with the node list [X],  *)
(* no segment and totals of zero.                                          *)
(***************************************************************************)
C15_SameEndpointsZeroPath ==
  (/\ IsRoute
   /\ ret.optimize_by \in Metrics
   /\ ret.source_id = ret.destination_id
   /\ ret.source_id \in graph.nodes) =>
    /\ ret.value.status = "success"
    /\ RoutePath = <<ret.source_id>>
    /\ ret.value.route.segments = << >>
    /\ ret.value.route.summary.total_distance_km = 0
    /\ ret.value.route.summary.total_time_minutes = 0
    /\ ret.value.route.summary.total_cost = 0

(***************************************************************************)
(* C16: in every successful route, the one of source = destination         *)
(* included, summary.stops is the number of vertices of the path that are  *)
(* neither the source nor the destination.                                 *)
(***************************************************************************)
C16_StopsCountsIntermediate ==
  IsRouteSuccess =>
    ret.value.route.summary.stops
      = Cardinality({i \in 1..Len(RoutePath) :
                       RoutePath[i] \notin {ret.source_id, ret.destination_id}})

(***************************************************************************)
(* C17: calculate_shortest_path with a metric outside time, distance and   *)
(* cost gives what the same call with the metric time gives: the same      *)
(* error, or a success with the same nodes, segments and totals.           *)
(***************************************************************************)
C17_UnknownMetricIsTime ==
  (IsRoute /\ ret.optimize_by \notin Metrics) =>
    LET t == calculate_shortest_path(graph, node_data, ret.source_id, ret.destination_id, "time")
    IN  /\ ret.value.status = t.status
        /\ t.status = "error" => ret.value = t
        /\ t.status = "success" =>
             /\ ret.value.route.nodes = t.route.nodes
             /\ ret.value.route.segments = t.route.segments
             /\ ret.value.route.summary.total_distance_km = t.route.summary.total_distance_km
             /\ ret.value.route.summary.total_time_minutes = t.route.summary.total_time_minutes
             /\ ret.value.route.summary.total_cost = t.route.summary.total_cost
             /\ ret.value.route.summary.stops = t.route.summary.stops

\* an unrecognized metric answered by the quickest route although the direct
\* arc is the shortest
C17_Witness ==
  /\ IsRouteSuccess
  /\ ret.optimize_by \notin Metrics
  /\ RoutePath = <<1, 2, 3>>
  /\ <<1, 3>> \in SimplePaths(graph, 1, 3)
  /\ PathWeight(graph, <<1, 3>>, "distance") < PathWeight(graph, <<1, 2, 3>>, "distance")

(***************************************************************************)
(* C18: in every successful route, summary.optimized_by is one of time,    *)
(* distance and cost and names the metric whose arc weight steered the     *)
(* search, also when the caller's metric was unrecognized.                 *)
(***************************************************************************)
C18_OptimizedByNamesSteeringMetric ==
  IsRouteSuccess =>
    /\ ret.value.route.summary.optimized_by \in Metrics
    /\ MetricAttr(ret.value.route.summary.optimized_by) = WeightAttr(ret.optimize_by)

(***************************************************************************)
(* C19: after every completed build_graph, the ids of node_data are the    *)
(* vertices of the graph and every entry is the metadata that build read.  *)
(***************************************************************************)
C19_NodeDataMatchesGraph ==
  (IsCall /\ ret.built) =>
    /\ DOMAIN node_data = graph.nodes
    /\ \A id \in DOMAIN node_data :
         id \in DOMAIN graph.attrs /\ node_data[id] = graph.attrs[id]

(***************************************************************************)
(* C20: under every interleaving of transition requests and                *)
(* update_package_location tasks on one package (no update and no destroy  *)
(* made), the state the database holds changes only along the              *)
(* declared transitions, never changes once it is delivered or cancelled,  *)
(* and a rejected transition leaves the stored state and current_location  *)
(* as they were.                                                           *)
(***************************************************************************)
DeclaredChanges ==
  {<<"pending", "in_transit">>, <<"in_transit", "in_transit">>,
   <<"in_transit", "out_for_delivery">>, <<"out_for_delivery", "delivered">>,
   <<"pending", "cancelled">>, <<"in_transit", "cancelled">>}

\* a worker answers 400 or error in this step
Rejects(w) ==
  /\ workers'[w] # workers[w]
  /\ workers'[w].response \in {"HTTP_400_BAD_REQUEST", "error"}

C20_Step ==
  changes' = 0 =>
    /\ package'.state # package.state => <<package.state, package'.state>> \in DeclaredChanges
    /\ package.state \in {"delivered", "cancelled"} => package'.state = package.state
    /\ \A w \in Workers :
         Rejects(w) => /\ package'.state = package.state
                       /\ package'.current_location = package.current_location

C20_OnlyDeclaredTransitions == [][C20_Step]_vars
====
